---- MODULE Spec2Model ----
(***************************************************************************)
(* Model of hatchet's HPCToolkitReader (hatchet/hpctoolkit_reader.py) and   *)
(* Graph (hatchet/graph.py): reading the metric-db files of a bundle into   *)
(* a shared buffer with a pool of workers, walking the calling-context XML  *)
(* into a tree of Nodes and a list of node dicts, and merging both tables.  *)
(***************************************************************************)
EXTENDS Integers, Sequences, FiniteSets, TLC

\* ---------------------------------------------------------------- bounds
MaxElems == 3        \* XML elements of the calling-context section (rich walk)
MaxJoinElems == 4    \* XML elements of the bundles of SpecJoin
MaxPes == 3          \* metric-db files (processes) of the bundles of SpecRead
MaxJoinPes == 1      \* metric-db files of the bundles of SpecJoin
MaxMetrics == 3      \* num_metrics of a bundle
MaxRuns == 2         \* readers created one after the other in one process
ReadElems == 2       \* XML elements of the bundles of SpecRead
ReadNumNodes == 4    \* num_nodes of the metric-db files of SpecRead
MaxFilePes == 2      \* metric-db files of the bundles of SpecFiles
MaxForestElems == 3  \* XML elements of the bundles of SpecForest

\* ------------------------------------------------------- python helpers
None == "None"
\* the python integer 0 (the XML attribute values are strings, never equal to it)
Int0 == "int(0)"

RECURSIVE rpartition2(_, _)
\* str.rpartition(sep)[2]: the part after the last occurrence of sep, or the
\* whole string when sep does not occur.  Strings are sequences of characters.
rpartition2(s, sep) ==
    IF s = << >> THEN << >>
    ELSE IF s[Len(s)] = sep THEN << >>
    ELSE rpartition2(SubSeq(s, 1, Len(s) - 1), sep) \o << s[Len(s)] >>

Digits == << "0", "1", "2", "3", "4", "5", "6", "7", "8", "9" >>

RECURSIVE str(_)
\* str(n) of a non-negative integer: its decimal digits
str(n) == IF n < 10 THEN << Digits[n + 1] >>
          ELSE str(n \div 10) \o << Digits[(n % 10) + 1] >>

\* the elements of a finite set of integers, in increasing order
RECURSIVE sorted(_)
sorted(S) == IF S = {} THEN << >>
             ELSE LET m == CHOOSE x \in S : \A y \in S : x <= y
                  IN  << m >> \o sorted(S \ {m})

Range(s) == { s[k] : k \in DOMAIN s }

\* ------------------------------------------------- experiment.xml tables
\* ProcedureTable/Procedure[i,n], FileTable/File[i,n],
\* LoadModuleTable/LoadModule[i,n], MetricDBTable/MetricDB[i,n]
ProcedureTable == [ p0 |-> << >>, p1 |-> << "a" >> ]
FileTable == [ f1 |-> << "s", "/", "x", ".", "c" >>, f2 |-> << "y", ".", "c" >> ]
LoadModuleTable == [ lm1 |-> << "e", "x", "e" >> ]
MetricDBTable(nm) == [ k \in 0 .. nm - 1 |-> << "m" >> \o str(k) ]

ProcIds == DOMAIN ProcedureTable
FileIds == DOMAIN FileTable
LineAttr == << "7" >>

\* ----------------------------- the calling-context section of the XML
\* An element is [parent, tag, i, n, f, l, lm]; elements are numbered in
\* document order (pre-order), parent 0 is SecCallPathProfileData.
ProcDescs == { [tag |-> t, n |-> p, f |-> fl] :
                 t \in {"PF", "Pr"}, p \in ProcIds, fl \in FileIds }
LoopDescs == { [tag |-> "L", n |-> None, f |-> fl] : fl \in FileIds }
OtherDescs == { [tag |-> t, n |-> None, f |-> None] : t \in {"S", "C", "M", "X"} }
AllDescs == ProcDescs \cup LoopDescs \cup OtherDescs
RootDescs == { d \in ProcDescs : d.tag = "PF" }
\* the reduced alphabet of SpecJoin and SpecRead
JoinDescs == { d \in ProcDescs : d.tag = "Pr" /\ d.f = "f1" }
                \cup { d \in OtherDescs : d.tag \in {"S", "C"} }
JoinRootDescs == { d \in RootDescs : d.n = "p1" /\ d.f = "f1" }

RECURSIVE AncSelf(_, _)
AncSelf(par, e) == IF e = 0 THEN {} ELSE {e} \cup AncSelf(par, par[e])

\* parent functions of the trees with n elements, numbered in pre-order
TreeShapes(n) ==
    { par \in [1 .. n -> 0 .. n - 1] :
        /\ par[1] = 0
        /\ \A e \in 2 .. n : par[e] < e /\ par[e] >= 1
        /\ \A e \in 2 .. n : par[e] \in AncSelf(par, e - 1) }

MkElem(par, d, e) ==
    [parent |-> par[e], tag |-> d[e].tag, i |-> e, n |-> d[e].n,
     f |-> d[e].f, l |-> LineAttr,
     lm |-> IF d[e].tag \in {"PF", "Pr"} THEN "lm1" ELSE None]

XmlForests(maxn, rootDescs, descs) ==
    UNION { { [e \in 1 .. n |-> MkElem(par, d, e)] :
                par \in TreeShapes(n),
                d \in { dd \in [1 .. n -> rootDescs \cup descs] :
                          /\ dd[1] \in rootDescs
                          /\ \A e \in 2 .. n : dd[e] \in descs } } :
            n \in 1 .. maxn }

\* xml_node.getchildren(): the children of element e in document order
getchildren(x, e) == sorted({ c \in DOMAIN x : x[c].parent = e })

\* callpath_profile.findall('PF'): the top-level PF elements in document order
findall_PF(x) == sorted({ c \in DOMAIN x : x[c].parent = 0 /\ x[c].tag = "PF" })

\* ------------------------------------------------------ metric-db files
\* decoded payload of file k: num_nodes * num_metrics big-endian floats
Payload(k, n, nm) == [ j \in 1 .. n * nm |-> k * 100 + j ]

MetricDbFile(k, n, nm) ==
    [endian |-> "b", num_nodes |-> n, num_metrics |-> nm,
     payload |-> Payload(k, n, nm), readable |-> TRUE]

\* the files a bundle can hold: a well-formed one, one written little-endian,
\* one that cannot be opened, one whose payload ends early, one without payload
FileKinds == {"ok", "little", "unreadable", "truncated", "empty"}

MetricDbFileOf(kind, k, n, nm) ==
    [endian |-> IF kind = "little" THEN "l" ELSE "b",
     num_nodes |-> n, num_metrics |-> nm,
     payload |-> CASE kind = "truncated" -> SubSeq(Payload(k, n, nm), 1, n * nm - 1)
                   [] kind = "empty" -> << >>
                   [] OTHER -> Payload(k, n, nm),
     readable |-> kind # "unreadable"]

\* glob.glob(dir + '/*.metric-db'): the files in directory order
Listings(p) == { s \in [1 .. p -> 1 .. p] : \A a, b \in 1 .. p : s[a] = s[b] => a = b }

VARIABLES
    xml,             \* the calling-context section of experiment.xml
    files,           \* file name -> metric-db file content
    listing,         \* directory order of the metric-db files (glob)
    src_file,        \* module global src_file
    stmt_num,        \* module global stmt_num
    run,             \* number of readers constructed so far in this process
    pc,              \* position of the current reader's caller
    err,             \* the exception that ended the current run, or None
    num_pes, num_nodes, num_metrics,                    \* reader fields
    load_modules, src_files, procedure_names, metric_names,
    node_dicts,      \* reader -> self.node_dicts
    metrics,         \* the shared buffer, reshaped: row -> column -> value
    task,            \* pe -> state of the pool's task for that file
    df_metrics,      \* self.df_metrics, or None
    lists,           \* heap of the callpath lists (python lists, by identity)
    nodes,           \* heap of the Node objects attached to a tree
    stack,           \* call stack of parse_xml_children frames
    graph_root,      \* create_graphframe's local graph_root (0 before it is set)
    result           \* reader -> what create_graphframe returned, or None

vars == << xml, files, listing, src_file, stmt_num, run, pc, err,
           num_pes, num_nodes, num_metrics,
           load_modules, src_files, procedure_names, metric_names,
           node_dicts, metrics, task, df_metrics, lists, nodes, stack, graph_root, result >>

inputs == << xml, files, listing >>
globals == << src_file, stmt_num >>
tables == << load_modules, src_files, procedure_names, metric_names >>
header == << num_pes, num_nodes, num_metrics >>
walk == << lists, nodes, stack, graph_root >>

EmptyMap == [ k \in {} |-> None ]

\* the process right after "import hatchet": module globals set, no reader
NoResult == [returned |-> FALSE, graph |-> << >>, dataframe |-> << >>]

InitProcess ==
    /\ src_file = Int0
    /\ stmt_num = 1
    /\ run = 0
    /\ pc = "start"
    /\ err = None
    /\ num_pes = 0 /\ num_nodes = 0 /\ num_metrics = 0
    /\ load_modules = EmptyMap /\ src_files = EmptyMap
    /\ procedure_names = EmptyMap /\ metric_names = EmptyMap
    /\ node_dicts = [ r \in 1 .. MaxRuns |-> << >> ]
    /\ metrics = << >>
    /\ task = << >>
    /\ df_metrics = << >>
    /\ lists = << >>
    /\ nodes = << >>
    /\ stack = << >>
    /\ graph_root = 0
    /\ result = [ r \in 1 .. MaxRuns |-> NoResult ]

InitWith(forests, nn, pes, nms) ==
    /\ xml \in forests
    /\ \E p \in pes, nm \in nms :
         /\ files = [ k \in 1 .. p |-> MetricDbFile(k, nn, nm) ]
         /\ listing \in Listings(p)
    /\ InitProcess

\* bundles with a rich calling-context section, one process, two metrics;
\* the metric-db header counts one node id more than the XML uses
Init == InitWith(XmlForests(MaxElems, RootDescs, AllDescs), MaxElems + 1, {1}, {2})

\* ------------------------------------------------ HPCToolkitReader.__init__
\* A caller constructs a reader: the first one, or a fresh one after the
\* previous create_graphframe returned or raised.  The module globals
\* src_file and stmt_num are not touched.
HPCToolkitReader_init ==
    /\ pc \in {"start", "done", "error"}
    /\ run < MaxRuns
    /\ run' = run + 1
    /\ LET metricdb_files == listing
           first == files[metricdb_files[1]]
       IN  /\ num_pes' = Len(metricdb_files)
           /\ IF ~first.readable
              THEN \* line 80: open raises
                   /\ UNCHANGED << num_nodes, num_metrics >>
                   /\ pc' = "error"
                   /\ err' = "IOError"
              ELSE IF first.endian = "b"
              THEN /\ num_nodes' = first.num_nodes
                   /\ num_metrics' = first.num_metrics
                   /\ pc' = "constructed"
                   /\ err' = None
              ELSE /\ UNCHANGED << num_nodes, num_metrics >>
                   /\ pc' = "error"
                   /\ err' = "ValueError"
    /\ load_modules' = EmptyMap /\ src_files' = EmptyMap
    /\ procedure_names' = EmptyMap /\ metric_names' = EmptyMap
    /\ metrics' = << >> /\ task' = << >> /\ df_metrics' = << >>
    /\ stack' = << >> /\ graph_root' = 0
    /\ UNCHANGED << inputs, globals, node_dicts, lists, nodes, result >>

\* ------------------------------------------------------------- fill_tables
fill_tables ==
    /\ pc = "constructed"
    /\ load_modules' = LoadModuleTable
    /\ src_files' = FileTable
    /\ procedure_names' = ProcedureTable
    /\ metric_names' = MetricDBTable(files[listing[1]].num_metrics)
    /\ pc' = "tables"
    /\ UNCHANGED << inputs, globals, run, err, header, node_dicts, metrics,
                    task, df_metrics, walk, result >>

\* ------------------------------------------------ read_all_metricdb_files
\* shape = [num_nodes * num_pes, num_metrics + 2]
NumRows == num_nodes * num_pes
NumCols == num_metrics + 2

\* lines 126-142: allocate the zeroed shared buffer, start the pool and
\* hand it one task (pe, filename, ...) per file of the listing
read_all_metricdb_files ==
    /\ pc = "tables"
    /\ metrics' = [ r \in 0 .. NumRows - 1 |-> [ c \in 0 .. NumCols - 1 |-> 0 ] ]
    /\ task' = [ pe \in 0 .. num_pes - 1 |->
                   [pc |-> "pending", filename |-> listing[pe + 1], arr1d |-> << >>,
                    exc |-> None] ]
    /\ pc' = "reading"
    /\ UNCHANGED << inputs, globals, run, err, header, tables, node_dicts,
                    df_metrics, walk, result >>

\* np.fromfile(f, count=n): the first n values of the payload, fewer if the
\* file ends before
fromfile(payload, n) ==
    SubSeq(payload, 1, IF Len(payload) < n THEN Len(payload) ELSE n)

\* the offset counted in rows of one node instead of blocks of num_nodes
pe_offset_unscaled(pe) == pe

\* line 50
pe_offset(pe) == pe * num_nodes

\* arr[rows, :2].flat = vals.flat : the cells of columns 0 and 1 of the row
\* block, in row-major order, take the values in order; the values are
\* cycled when there are too few, the surplus is ignored, and nothing is
\* written when there is none
FlatAssign(arr, off, n, vals) ==
    IF Len(vals) = 0 THEN arr
    ELSE [ r \in DOMAIN arr |->
             IF r >= off /\ r < off + n
             THEN [ c \in DOMAIN arr[r] |->
                      IF c < 2
                      THEN vals[(((r - off) * 2 + c) % Len(vals)) + 1]
                      ELSE arr[r][c] ]
             ELSE arr[r] ]

\* arr[rows, col] = vals: row off + k of the block takes vals[k]
ColAssign(arr, off, n, col, vals) ==
    [ r \in DOMAIN arr |->
        IF r >= off /\ r < off + n
        THEN [ arr[r] EXCEPT ![col] = vals[r - off] ]
        ELSE arr[r] ]

\* read_metricdb_file lines 42-45 in a worker: read the payload of the file
read_metricdb_file_open ==
  \E pe \in DOMAIN task :
    /\ pc = "reading"
    /\ task[pe].pc = "pending"
    /\ IF files[task[pe].filename].readable
       THEN task' = [ task EXCEPT ![pe].pc = "opened",
                                  ![pe].arr1d = fromfile(files[task[pe].filename].payload,
                                                         num_nodes * num_metrics) ]
       ELSE \* line 42: open raises in the worker
            task' = [ task EXCEPT ![pe].pc = "failed", ![pe].exc = "IOError" ]
    /\ UNCHANGED << inputs, globals, run, pc, err, header, tables, node_dicts,
                    metrics, df_metrics, walk, result >>

\* read_metricdb_file line 51
read_metricdb_file_copy ==
  \E pe \in DOMAIN task :
    /\ pc = "reading"
    /\ task[pe].pc = "opened"
    /\ metrics' = FlatAssign(metrics, pe_offset(pe), num_nodes, task[pe].arr1d)
    /\ task' = [ task EXCEPT ![pe].pc = "copied" ]
    /\ UNCHANGED << inputs, globals, run, pc, err, header, tables, node_dicts,
                    df_metrics, walk, result >>

\* read_metricdb_file line 52
read_metricdb_file_nid ==
  \E pe \in DOMAIN task :
    /\ pc = "reading"
    /\ task[pe].pc = "copied"
    /\ metrics' = ColAssign(metrics, pe_offset(pe), num_nodes, 2,
                             [ k \in 0 .. num_nodes - 1 |-> k + 1 ])
    /\ task' = [ task EXCEPT ![pe].pc = "indexed" ]
    /\ UNCHANGED << inputs, globals, run, pc, err, header, tables, node_dicts,
                    df_metrics, walk, result >>

\* read_metricdb_file line 53: column 3 exists only when the buffer has more
\* than three columns, otherwise numpy raises IndexError
read_metricdb_file_rank ==
  \E pe \in DOMAIN task :
    /\ pc = "reading"
    /\ task[pe].pc = "indexed"
    /\ IF 3 < NumCols
       THEN /\ metrics' = ColAssign(metrics, pe_offset(pe), num_nodes, 3,
                                     [ k \in 0 .. num_nodes - 1 |-> pe ])
            /\ task' = [ task EXCEPT ![pe].pc = "done" ]
       ELSE /\ task' = [ task EXCEPT ![pe].pc = "failed", ![pe].exc = "IndexError" ]
            /\ UNCHANGED metrics
    /\ UNCHANGED << inputs, globals, run, pc, err, header, tables, node_dicts,
                    df_metrics, walk, result >>

\* pd.DataFrame(self.metrics, columns=metric_names + ['nid', 'rank']): the
\* rows of the buffer; the column labelled nid is column num_metrics and the
\* column labelled rank is column num_metrics + 1
DataFrame(arr, nm) ==
    [ k \in 1 .. NumRows |->
        [vals |-> [ c \in 1 .. nm |-> arr[k - 1][c - 1] ],
         nid |-> arr[k - 1][nm],
         rank |-> arr[k - 1][nm + 1]] ]

\* the pool counting the results as all in once one task has finished
AnyFinished(t) == \E pe \in DOMAIN t : t[pe].pc \in {"done", "failed"}

\* line 143: pool.map has the result of every task
AllFinished(t) == \A pe \in DOMAIN t : t[pe].pc \in {"done", "failed"}

\* the exception of a worker dropped instead of re-raised
TaskFailedIgnored(t) == FALSE

\* line 143: pool.map re-raises the exception of a task that failed
TaskFailed(t) == t.pc = "failed"

\* lines 143-149: pool.map returns when every task has finished, or raises
\* the exception of a failed task (at once or when all have finished,
\* depending on the python version); only when it returns is the metrics
\* table built
pool_map_return ==
    /\ pc = "reading"
    /\ AllFinished(task) \/ \E pe \in DOMAIN task : TaskFailed(task[pe])
    /\ IF \E pe \in DOMAIN task : TaskFailed(task[pe])
       THEN /\ pc' = "error"
            /\ \E pe \in DOMAIN task : TaskFailed(task[pe]) /\ err' = task[pe].exc
            /\ UNCHANGED df_metrics
       ELSE /\ pc' = "read_done"
            /\ df_metrics' = DataFrame(metrics, Len(sorted(DOMAIN metric_names)))
            /\ UNCHANGED err
    /\ UNCHANGED << inputs, globals, run, header, tables, node_dicts, metrics,
                    task, walk, result >>

\* ------------------------------------------------------------ Node, dicts
\* Node(callpath_tuple, parent): a Node object; parent 0 is None
Node(callpath, parent) ==
    [callpath |-> callpath, parent |-> parent, children |-> << >>]

\* hparent.add_child(hnode) on the heap of Nodes
add_child(heap, hparent, hnode) ==
    [ heap EXCEPT ![hparent].children = Append(@, hnode) ]

create_node_dict(nid, hnode, name, node_type, file, line, module) ==
    [nid |-> nid, name |-> name, type |-> node_type, file |-> file,
     line |-> line, module |-> module, node |-> hnode]

LoopAt == << "L", "o", "o", "p", "@" >>
Stmt == << "S", "t", "m", "t" >>

\* 'Loop@' + basename + ':' + line
LoopName(path, line) == LoopAt \o rpartition2(path, "/") \o << ":" >> \o line

\* 'Stmt' + str(stmt_num) + '@' + basename + ':' + line
StmtName(num, path, line) ==
    Stmt \o str(num) \o << "@" >> \o rpartition2(path, "/") \o << ":" >> \o line

\* the elision test without its anonymous-procedure half
ElidedCallsiteOnly(xml_tag, name) == xml_tag = "C"

\* lines 246-247: the elements that add no node to the graph
Elided(xml_tag, name) == xml_tag = "C" \/ (xml_tag = "Pr" /\ name = << >>)

\* the counter left as it is
NextStmtNumStuck(num) == num

\* line 238
NextStmtNum(num) == num + 1

\* the children of an elided element attached to the root instead
ElidedChildrenAtRoot(stk, c, hparent, L) ==
    Append(stk, [xml_node |-> c, idx |-> 1, hnode |-> stk[1].hnode, parent_callpath |-> L])

\* line 250: parse_xml_children(xml_node, hparent, parent_callpath), the call
\* pushed on the stack stk
ElidedChildren(stk, c, hparent, L) ==
    Append(stk, [xml_node |-> c, idx |-> 1, hnode |-> hparent, parent_callpath |-> L])

\* lines 181 and 254: parse_xml_children(xml_node, hnode, list(node_callpath)),
\* newL being the fresh copy
RetainedChildren(stk, c, hnode, newL) ==
    Append(stk, [xml_node |-> c, idx |-> 1, hnode |-> hnode, parent_callpath |-> newL])

\* ------------------------------------- create_graphframe, lines 162-181
\* the root Node, its node dict, and the call parse_xml_children(root,
\* graph_root, list(node_callpath))
create_graphframe_root ==
    /\ pc = "read_done"
    /\ LET root == findall_PF(xml)[1]
           nid == xml[root].i
           name == procedure_names[xml[root].n]
           node_callpath == << name >>
           hroot == Len(nodes) + 1
           node_dict == create_node_dict(nid, hroot, name, "PF",
                            src_files[xml[root].f], xml[root].l,
                            load_modules[xml[root].lm])
       IN  /\ nodes' = Append(nodes, Node(node_callpath, 0))
           /\ graph_root' = hroot
           /\ node_dicts' = [ node_dicts EXCEPT ![run] = Append(@, node_dict) ]
           /\ lists' = lists \o << node_callpath, node_callpath >>
           /\ stack' = RetainedChildren(<< >>, root, hroot, Len(lists) + 2)
    /\ pc' = "walk"
    /\ UNCHANGED << inputs, globals, run, err, header, tables, metrics, task,
                    df_metrics, result >>

\* the frame on top of the stack, the children it iterates over
Top == stack[Len(stack)]
Kids == getchildren(xml, Top.xml_node)
Advance == [ stack EXCEPT ![Len(stack)].idx = @ + 1 ]

\* ---------------------------------------- parse_xml_children, lines 197-199
\* one step of the loop that does not call parse_xml_node: an M child is
\* skipped, or the children are exhausted and the call returns
parse_xml_children ==
    /\ pc = "walk"
    /\ stack # << >>
    /\ IF Top.idx > Len(Kids)
       THEN /\ stack' = SubSeq(stack, 1, Len(stack) - 1)
            /\ pc' = IF Len(stack) = 1 THEN "walked" ELSE "walk"
       ELSE /\ xml[Kids[Top.idx]].tag = "M"
            /\ stack' = Advance
            /\ pc' = "walk"
    /\ UNCHANGED << inputs, globals, run, err, header, tables, node_dicts,
                    metrics, task, df_metrics, lists, nodes, graph_root, result >>

\* -------------------------------------------- parse_xml_node, lines 201-254
\* the visit of the next child of the top frame, up to its own call of
\* parse_xml_children.  The callpath list L of the frame is shared by all
\* the children of the frame: node_callpath = parent_callpath is an alias.
parse_xml_node ==
    /\ pc = "walk"
    /\ stack # << >>
    /\ Top.idx <= Len(Kids)
    /\ xml[Kids[Top.idx]].tag # "M"
    /\ LET c == Kids[Top.idx]
           xml_node == xml[c]
           nid == xml_node.i
           xml_tag == xml_node.tag
           hparent == Top.hnode
           L == Top.parent_callpath
           isProc == xml_tag \in {"PF", "Pr"}
           hasBranch == xml_tag \in {"PF", "Pr", "L", "S"}
           file_id == IF isProc \/ xml_tag = "L" THEN xml_node.f ELSE src_file
           line == xml_node.l
           name == CASE isProc -> procedure_names[xml_node.n]
                     [] xml_tag = "L" -> LoopName(src_files[file_id], line)
                     [] xml_tag = "S" -> StmtName(stmt_num, src_files[file_id], line)
                     [] OTHER -> << >>
           lists1 == IF hasBranch THEN [ lists EXCEPT ![L] = Append(@, name) ]
                     ELSE lists
           hnode == Len(nodes) + 1
           node_dict == create_node_dict(nid, hnode, name, xml_tag,
                            src_files[file_id], line,
                            IF isProc THEN load_modules[xml_node.lm] ELSE None)
       IN  IF xml_tag = "S" /\ src_file \notin DOMAIN src_files
           THEN \* line 237: self.src_files[src_file] raises KeyError
                /\ pc' = "error" /\ err' = "KeyError" /\ stack' = << >>
                /\ UNCHANGED << globals, node_dicts, lists, nodes >>
           ELSE IF Elided(xml_tag, IF isProc THEN name ELSE None)
           THEN \* line 250
                /\ src_file' = file_id
                /\ lists' = lists1
                /\ stack' = ElidedChildren(Advance, c, hparent, L)
                /\ UNCHANGED << stmt_num, pc, err, node_dicts, nodes >>
           ELSE IF ~hasBranch
           THEN \* line 252: node_dict was never assigned
                /\ pc' = "error" /\ err' = "UnboundLocalError" /\ stack' = << >>
                /\ UNCHANGED << globals, node_dicts, lists, nodes >>
           ELSE \* lines 252-254
                /\ src_file' = file_id
                /\ stmt_num' = IF xml_tag = "S" THEN NextStmtNum(stmt_num) ELSE stmt_num
                /\ node_dicts' = [ node_dicts EXCEPT ![run] = Append(@, node_dict) ]
                /\ nodes' = add_child(Append(nodes, Node(lists1[L], hparent)),
                                      hparent, hnode)
                /\ lists' = Append(lists1, lists1[L])
                /\ stack' = RetainedChildren(Advance, c, hnode, Len(lists1) + 1)
                /\ UNCHANGED << pc, err >>
    /\ UNCHANGED << inputs, run, header, tables, metrics, task, df_metrics,
                    graph_root, result >>

\* ------------------------------------- create_graphframe, lines 182-192
RECURSIVE merge(_, _)
\* pd.merge(left, right, on='nid'): the inner join, in the order of left
merge(left, right) ==
    IF left = << >> THEN << >>
    ELSE LET row == Head(left)
             match == SelectSeq(right, LAMBDA d : d.nid = row.nid)
         IN  [ k \in 1 .. Len(match) |->
                 [vals |-> row.vals, nid |-> row.nid, rank |-> row.rank,
                  name |-> match[k].name, type |-> match[k].type,
                  file |-> match[k].file, line |-> match[k].line,
                  module |-> match[k].module, node |-> match[k].node] ]
             \o merge(Tail(left), right)

\* Graph(roots)
Graph(roots) == [roots |-> roots]

create_graphframe_merge ==
    /\ pc = "walked"
    /\ LET df_nodes == node_dicts[run]
           dataframe == merge(df_metrics, df_nodes)
       IN  result' = [ result EXCEPT ![run] =
                         [returned |-> TRUE, graph |-> Graph(<< graph_root >>),
                          dataframe |-> dataframe] ]
    /\ pc' = "done"
    /\ UNCHANGED << inputs, globals, run, err, header, tables, node_dicts,
                    metrics, task, df_metrics, walk >>

Next ==
    \/ HPCToolkitReader_init
    \/ fill_tables
    \/ read_all_metricdb_files
    \/ read_metricdb_file_open
    \/ read_metricdb_file_copy
    \/ read_metricdb_file_nid
    \/ read_metricdb_file_rank
    \/ pool_map_return
    \/ create_graphframe_root
    \/ parse_xml_children
    \/ parse_xml_node
    \/ create_graphframe_merge

Spec == Init /\ [][Next]_vars

\* bundles with a reduced calling-context section of up to MaxJoinElems
\* elements, one to MaxJoinPes processes and two metrics
InitJoin ==
    InitWith(XmlForests(MaxJoinElems, JoinRootDescs, JoinDescs),
             MaxJoinElems + 1, 1 .. MaxJoinPes, {2})

SpecJoin == InitJoin /\ [][Next]_vars

\* bundles with up to MaxPes processes in every directory order and every
\* metric count; the calling-context section is a chain of named procedures
ReadForests == { x \in XmlForests(ReadElems, JoinRootDescs, JoinDescs) :
                   /\ Len(x) = ReadElems
                   /\ \A e \in 2 .. ReadElems :
                        x[e].tag = "Pr" /\ x[e].n = "p1" /\ x[e].parent = e - 1 }

InitRead == InitWith(ReadForests, ReadNumNodes, 1 .. MaxPes, 1 .. MaxMetrics)

SpecRead == InitRead /\ [][Next]_vars

\* bundles of up to MaxFilePes files of every kind, in every directory order
InitFiles ==
    /\ xml \in ReadForests
    /\ \E p \in 1 .. MaxFilePes :
         /\ files \in { [ k \in 1 .. p |-> MetricDbFileOf(kinds[k], k, ReadNumNodes, 2) ] :
                         kinds \in [1 .. p -> FileKinds] }
         /\ listing \in Listings(p)
    /\ InitProcess

SpecFiles == InitFiles /\ [][Next]_vars

\* parent functions of the forests with n elements, numbered in pre-order:
\* an element after the first is a child of an open element or a further
\* top-level element
ForestShapes(n) ==
    { par \in [1 .. n -> 0 .. n - 1] :
        /\ par[1] = 0
        /\ \A e \in 2 .. n : par[e] < e
        /\ \A e \in 2 .. n : par[e] \in AncSelf(par, e - 1) \cup {0} }

\* SecCallPathProfileData sections with one or more top-level PF elements
MultiRootForests(maxn, rootDescs, descs) ==
    UNION { UNION { { [e \in 1 .. n |-> MkElem(par, d, e)] :
                        d \in { dd \in [1 .. n -> rootDescs \cup descs] :
                                  \A e \in 1 .. n :
                                    dd[e] \in (IF par[e] = 0 THEN rootDescs
                                               ELSE descs) } } :
                    par \in ForestShapes(n) } :
            n \in 1 .. maxn }

InitForest == InitWith(MultiRootForests(MaxForestElems, JoinRootDescs, JoinDescs),
                       MaxForestElems + 1, {1}, {2})

SpecForest == InitForest /\ [][Next]_vars

\* ================================================================ claims
\* the table and graph returned by the current reader's create_graphframe
Returned == pc = "done" /\ result[run].returned
Table == result[run].dataframe

RECURSIVE Subtree(_)
\* the Nodes reachable from Node h through children
Subtree(h) == {h} \cup UNION { Subtree(nodes[h].children[k]) :
                                 k \in DOMAIN nodes[h].children }

\* the Nodes of the graph a reader returned
GraphNodes(r) == UNION { Subtree(result[r].graph.roots[k]) :
                           k \in DOMAIN result[r].graph.roots }

\* C1: after create_graphframe, a root's callpath has exactly one element
\* and every other node's callpath is its parent's callpath with the node's
\* own name appended.
C1_CallpathExtendsParent ==
    Returned =>
      \A k \in DOMAIN node_dicts[run] :
        LET d == node_dicts[run][k]
            h == nodes[d.node]
        IN  IF h.parent = 0
            THEN Len(h.callpath) = 1
            ELSE h.callpath = Append(nodes[h.parent].callpath, d.name)

\* C2: no two rows of the returned table share the same (node, rank) pair,
\* the identity of a node being its callpath.
C2_NodeRankUnique ==
    Returned =>
      \A a, b \in DOMAIN Table :
        (/\ nodes[Table[a].node].callpath = nodes[Table[b].node].callpath
         /\ Table[a].rank = Table[b].rank) => a = b

\* C3: the returned table has (number of nodes retained in the tree) *
\* num_processes rows, for every metric count.
C3_RowCount ==
    Returned => Len(Table) = Cardinality(GraphNodes(run)) * Len(listing)

RECURSIVE AncestorSeq(_)
\* the proper XML ancestors of element e, nearest first
AncestorSeq(e) == IF xml[e].parent = 0 THEN << >>
                  ELSE << xml[e].parent >> \o AncestorSeq(xml[e].parent)

\* the node dicts reader r made for XML element e (its nid is the element's i)
DictsOf(r, e) == { k \in DOMAIN node_dicts[r] : node_dicts[r][k].nid = xml[e].i }
HasDict(r, e) == DictsOf(r, e) # {}
NodeOf(r, e) == node_dicts[r][CHOOSE k \in DOMAIN node_dicts[r] : k \in DictsOf(r, e)].node

\* the nearest XML ancestor of e that reader r retained, 0 if there is none
NearestRetained(r, e) ==
    LET anc == SelectSeq(AncestorSeq(e), LAMBDA a : HasDict(r, a))
    IN  IF anc = << >> THEN 0 ELSE anc[1]

RECURSIVE SumLen(_, _)
SumLen(f, r) == IF r = 0 THEN 0 ELSE Len(f[r]) + SumLen(f, r - 1)

\* C4: a callsite never produces a Node or a node dict; the parent of every
\* retained node is the Node of its nearest retained XML ancestor, and the
\* children of a Node are the Nodes of the retained elements below it, in
\* document order.
C4_CallsiteElided ==
    /\ Len(nodes) = SumLen(node_dicts, MaxRuns)
    /\ \A r \in 1 .. MaxRuns : \A e \in DOMAIN xml :
         HasDict(r, e) =>
           /\ xml[e].tag # "C"
           /\ Cardinality(DictsOf(r, e)) = 1
           /\ nodes[NodeOf(r, e)].parent =
                 IF NearestRetained(r, e) = 0 THEN 0
                 ELSE NodeOf(r, NearestRetained(r, e))
           /\ LET below == { c \in DOMAIN xml :
                               HasDict(r, c) /\ NearestRetained(r, c) = e }
                  inorder == sorted(below)
              IN  nodes[NodeOf(r, e)].children =
                    [ k \in 1 .. Len(inorder) |-> NodeOf(r, inorder[k]) ]

\* a procedure below a callsite below a procedure other than the root was
\* attached to that procedure
C4_Witness ==
    /\ Returned
    /\ \E e \in DOMAIN xml :
         /\ HasDict(run, e) /\ xml[e].tag = "Pr"
         /\ xml[e].parent # 0 /\ xml[xml[e].parent].tag = "C"
         /\ NearestRetained(run, e) > 1
         /\ nodes[NodeOf(run, e)].parent = NodeOf(run, NearestRetained(run, e))

\* the elements the spec says are elided: callsites and, below the root,
\* procedures of either tag whose resolved name is empty
AnonymousProc(e) ==
    /\ xml[e].parent # 0
    /\ xml[e].tag \in {"PF", "Pr"}
    /\ ProcedureTable[xml[e].n] = << >>

\* C5: for every procedure element below the root, PF or Pr, whose resolved
\* name is empty, no Node and no node dict is made, and its retained
\* children are attached to its resolved parent.
C5_AnonymousProcElided ==
    \A r \in 1 .. MaxRuns : \A e \in DOMAIN xml :
      AnonymousProc(e) =>
        /\ ~HasDict(r, e)
        /\ \A c \in DOMAIN xml :
             (xml[c].parent = e /\ HasDict(r, c) /\ NearestRetained(r, e) # 0) =>
               nodes[NodeOf(r, c)].parent = NodeOf(r, NearestRetained(r, e))

\* the walk is about to visit an element that it elides
VisitsElided ==
    /\ pc = "walk"
    /\ stack # << >>
    /\ Top.idx <= Len(Kids)
    /\ LET x == xml[Kids[Top.idx]]
       IN  x.tag = "C" \/ (x.tag = "Pr" /\ ProcedureTable[x.n] = << >>)

\* C6: visiting an elided element appends nothing to the callpath: the
\* callpath handed to its children and the one left for its later siblings
\* are what the callpath was before the visit.
C6_ElidedAppendsNothing ==
    [][ (VisitsElided /\ pc' = "walk" /\ Len(stack') = Len(stack) + 1) =>
          /\ lists'[Top.parent_callpath] = lists[Top.parent_callpath]
          /\ lists'[stack'[Len(stack')].parent_callpath] = lists[Top.parent_callpath]
      ]_vars

\* the nearest enclosing Procedure or Loop element of e
Enclosing(e) ==
    LET anc == SelectSeq(AncestorSeq(e), LAMBDA a : xml[a].tag \in {"PF", "Pr", "L"})
    IN  anc[1]

\* C7: the file of a Statement's node dict, and the basename in its name,
\* come from the nearest enclosing Procedure or Loop element.
C7_StatementFile ==
    \A r \in 1 .. MaxRuns : \A k \in DOMAIN node_dicts[r] :
      LET d == node_dicts[r][k]
          e == CHOOSE x \in DOMAIN xml : xml[x].i = d.nid
          path == FileTable[xml[Enclosing(e)].f]
      IN  d.type = "S" =>
            /\ d.file = path
            /\ \E n \in 1 .. stmt_num : d.name = StmtName(n, path, xml[e].l)

DigitVal(ch) == CHOOSE v \in 0 .. 9 : Digits[v + 1] = ch

RECURSIVE int(_)
\* the number a string of decimal digits denotes
int(s) == IF s = << >> THEN 0
          ELSE int(SubSeq(s, 1, Len(s) - 1)) * 10 + DigitVal(s[Len(s)])

\* the N of a statement name StmtN@...
StmtNumOf(name) ==
    LET at == CHOOSE k \in DOMAIN name :
                 name[k] = "@" /\ \A j \in 1 .. k - 1 : name[j] # "@"
    IN  int(SubSeq(name, Len(Stmt) + 1, at - 1))

StmtDicts(r) == { k \in DOMAIN node_dicts[r] : node_dicts[r][k].type = "S" }

\* C8: within one walk, a statement that comes later in pre-order (document
\* order) is visited later and gets a strictly larger N, so no N is used
\* twice.
C8_StmtNumIncreasing ==
    \A r \in 1 .. MaxRuns : \A a, b \in StmtDicts(r) :
      node_dicts[r][a].nid < node_dicts[r][b].nid =>
        /\ a < b
        /\ StmtNumOf(node_dicts[r][a].name) < StmtNumOf(node_dicts[r][b].name)

\* a finished walk that named two statements, the second one outside the
\* subtree of the first one's parent
C8_Witness ==
    /\ Returned
    /\ \E a, b \in StmtDicts(run) :
         /\ a < b
         /\ xml[node_dicts[run][a].nid].parent # xml[node_dicts[run][b].nid].parent
         /\ StmtNumOf(node_dicts[run][a].name) < StmtNumOf(node_dicts[run][b].name)

StripNode(ds) ==
    [ k \in DOMAIN ds |->
        [nid |-> ds[k].nid, name |-> ds[k].name, type |-> ds[k].type,
         file |-> ds[k].file, line |-> ds[k].line, module |-> ds[k].module] ]

\* C9: a second build from the same XML with a fresh reader in the same
\* process yields the same sequence of node dicts as the first.
C9_RepeatedRunsAgree ==
    (Returned /\ run >= 2 /\ result[run - 1].returned) =>
       StripNode(node_dicts[run]) = StripNode(node_dicts[run - 1])

AllTasksDone == DOMAIN task # {} /\ \A pe \in DOMAIN task : task[pe].pc = "done"

\* C10: with two metrics, once all reads have completed each row block
\* [pe*N, pe*N+N) holds the decoded values of the file of rank pe, the node
\* index 1..N and the rank pe; and no worker step changes a row outside the
\* block of the worker's own task.
C10_DisjointBlocks ==
    /\ [](( num_metrics = 2 /\ AllTasksDone ) =>
            \A pe \in 0 .. num_pes - 1 : \A k \in 0 .. num_nodes - 1 :
              LET row == metrics[pe * num_nodes + k]
                  payload == files[listing[pe + 1]].payload
              IN  /\ row[0] = payload[2 * k + 1]
                  /\ row[1] = payload[2 * k + 2]
                  /\ row[2] = k + 1
                  /\ row[3] = pe)
    /\ [][ (pc = "reading" /\ pc' = "reading") =>
             \A r \in DOMAIN metrics :
               metrics'[r] # metrics[r] =>
                 \E pe \in DOMAIN task :
                   /\ task'[pe] # task[pe]
                   /\ r >= pe * num_nodes /\ r < pe * num_nodes + num_nodes
         ]_vars

\* three reads of a two-metric bundle have completed, in a directory order
\* that is not the sorted one
C10_Witness ==
    /\ num_metrics = 2 /\ num_pes = 3 /\ AllTasksDone
    /\ listing # << 1, 2, 3 >>
    /\ metrics[2 * num_nodes][3] = 2

\* C11: for every metric count, once the reads are over no read has failed
\* and each row pe*N + k holds the num_metrics payload values of node k+1 of
\* the file of rank pe in its first num_metrics columns, the node index k+1
\* in column num_metrics and the rank pe in column num_metrics + 1, so that
\* the columns labelled nid and rank of the metrics table hold the node index
\* and the rank.
C11_ColumnsFollowMetricCount ==
    /\ \A pe \in DOMAIN task : task[pe].pc # "failed"
    /\ pc = "read_done" =>
         \A pe \in 0 .. num_pes - 1 : \A k \in 0 .. num_nodes - 1 :
           LET row == metrics[pe * num_nodes + k]
               payload == files[listing[pe + 1]].payload
               df_row == df_metrics[pe * num_nodes + k + 1]
           IN  /\ \A c \in 0 .. num_metrics - 1 :
                    row[c] = payload[num_metrics * k + c + 1]
               /\ row[num_metrics] = k + 1
               /\ row[num_metrics + 1] = pe
               /\ df_row.nid = k + 1
               /\ df_row.rank = pe

\* C13: the rank of each file is its position in the sorted listing of the
\* file names, whatever the order of the directory listing.
C13_RankIsSortedPosition ==
    \A pe \in DOMAIN task : task[pe].filename = sorted(DOMAIN files)[pe + 1]

\* the merged table of the walk that has just ended
MergedTable == merge(df_metrics, node_dicts[run])

\* two rows of table t with the same Node and the same rank
DuplicateIndex(t) ==
    \E a, b \in DOMAIN t :
      a # b /\ t[a].node = t[b].node /\ t[a].rank = t[b].rank

\* C14: when the merge yields two rows with the same (node, rank) pair,
\* create_graphframe ends in an error and returns no table.
C14_DuplicateIndexFatal ==
    [][ (pc = "walked" /\ DuplicateIndex(MergedTable) /\ pc' # pc) =>
          (pc' = "error" /\ ~result'[run].returned) ]_vars

\* the reads whose result has reached the shared buffer
Wrote(t) == t.pc \in {"copied", "indexed", "done"}

\* C12: a metric-db file whose endianness byte is not 'b', at whatever
\* position of the listing, makes the ingestion end in an error: no read
\* writes a row of the buffer from such a file and no metrics table is built.
C12_ForeignEndianRejected ==
    /\ \A pe \in DOMAIN task :
         files[task[pe].filename].endian # "b" => ~Wrote(task[pe])
    /\ (\E k \in DOMAIN files : files[k].endian # "b") =>
         pc \notin {"read_done", "walk", "walked", "done"}

\* C16: the step that builds the metrics table is taken only when no read is
\* pending or running.
C16_TableAfterAllReads ==
    [][ (pc = "reading" /\ pc' = "read_done") =>
          \A pe \in DOMAIN task :
            task[pe].pc \notin {"pending", "opened", "copied", "indexed"} ]_vars

\* the table has been built from the reads of two files, which have both
\* ended
C16_Witness ==
    /\ pc = "read_done" /\ num_pes = 2 /\ df_metrics # << >>
    /\ \A pe \in DOMAIN task : task[pe].pc = "done"

\* C17: once the read of a file has failed in a worker, no metrics table is
\* built and create_graphframe returns neither graph nor table.
C17_WorkerFailureFatal ==
    (\E pe \in DOMAIN task : task[pe].pc = "failed") =>
      /\ pc \in {"reading", "error"}
      /\ df_metrics = << >>
      /\ ~result[run].returned

\* read_all_metricdb_files has raised the error of the one read that failed
\* after the read of the other file had ended well
C17_Witness ==
    /\ pc = "error" /\ err = "IOError"
    /\ \E pe \in DOMAIN task : task[pe].pc = "failed"
    /\ \E pe \in DOMAIN task : task[pe].pc = "done"

\* the payload of file k ends before num_nodes * num_metrics values
Truncated(k) == Len(files[k].payload) < files[k].num_nodes * files[k].num_metrics

\* C18: a file whose payload is shorter than num_nodes * num_metrics values
\* makes its read fail: no read writes the row block from such a file and no
\* metrics table is built.
C18_TruncatedPayloadFatal ==
    /\ \A pe \in DOMAIN task :
         Truncated(task[pe].filename) => ~Wrote(task[pe])
    /\ (\E pe \in DOMAIN task : Truncated(task[pe].filename)) =>
         pc \notin {"read_done", "walk", "walked", "done"}

\* C15: for a bundle with k >= 1 top-level PF elements the Graph returned
\* has k roots, the Nodes of the top-level elements in document order, and
\* every element that is neither a callsite nor an anonymous procedure has
\* been recorded.
C15_OneRootPerTopLevelPF ==
    Returned =>
      LET tops == findall_PF(xml)
          roots == result[run].graph.roots
      IN  /\ Len(roots) = Len(tops)
          /\ \A k \in DOMAIN tops :
               HasDict(run, tops[k]) /\ NodeOf(run, tops[k]) = roots[k]
          /\ \A e \in DOMAIN xml :
               (xml[e].tag # "C" /\ ~AnonymousProc(e)) => HasDict(run, e)

\* the walk is at a child whose tag is none of PF, Pr, L, S, C
VisitsOther ==
    /\ pc = "walk" /\ stack # << >>
    /\ Top.idx <= Len(Kids)
    /\ xml[Kids[Top.idx]].tag \notin {"PF", "Pr", "L", "S", "C"}

\* C19: a step of the walk at an element whose tag is none of PF, Pr, L, S,
\* C raises no error, does not recurse into the element, makes no Node and
\* no node dict, and goes on with the next sibling.
C19_OtherTagSkipped ==
    [][ VisitsOther =>
          /\ pc' = "walk"
          /\ stack' = Advance
          /\ UNCHANGED << node_dicts, nodes >> ]_vars

RECURSIVE PreOrder(_), PreOrderAll(_)
\* the Nodes of the subtree of Node h, depth first, children in their order
PreOrder(h) == << h >> \o PreOrderAll(nodes[h].children)
PreOrderAll(hs) == IF hs = << >> THEN << >>
                   ELSE PreOrder(Head(hs)) \o PreOrderAll(Tail(hs))

====
